---- MODULE Spec2Model ----
(***************************************************************************)
(* Model of the session/profile revalidation hook useProfile (the richer   *)
(* version with visibility, broadcast and heartbeat reconciliation).       *)
(* One hook instance is modelled: its React state (user, loading), its     *)
(* single-flight ref, its three registered listeners, and the collaborator *)
(* calls (getProfile, logout) that are in flight.  A second specification, *)
(* HeaderSpec, models the Header component with the minimal useProfile     *)
(* hook it instantiates, next to the richer hook.                          *)
(***************************************************************************)
EXTENDS Integers, Sequences, FiniteSets, TLC

(* ---------- bounds ---------- *)
MaxTriggers == 3     \* saturation point of the per-window history counters
MaxLogout == 2       \* logout() calls that may be pending at once
MaxDeactivate == 2   \* how many times the teardown may be run
MaxCalls == 3        \* saturation point of the whole-run history counters

(* ---------- values ---------- *)
Null == "null"
Rejected == "rejected"
Profiles == {"u1", "u2"}
Outcomes == Profiles \cup {Rejected}
Undefined == "undefined"

VARIABLES
    user,            \* useState<AuthUser | null>(null)
    loading,         \* useState(true)
    fetchingRef,     \* useRef(false): the single-flight guard
    inflight,        \* number of getProfile() calls awaiting their result
    present,         \* what isAuthenticated() returns now
    visibilityState, \* document.visibilityState
    activated,       \* the effects of the hook have run
    deactivations,   \* how many times the effect cleanups have run
    visListener,     \* "visibilitychange" listener registered
    tokListener,     \* "auth:tokens-updated" listener registered
    interval,        \* heartbeat timer armed
    pendingLogout,   \* number of logout() calls awaiting their result
    signOutResult,   \* settlement of the promise the last settled signOut() returned
    last,            \* history: what the last step did
    winTriggers,     \* history: reconcile calls with a credential since the last fetch result
    winCalls,        \* history: getProfile() calls since the last fetch result
    quiet,           \* history: nothing but activation and fetch results has happened
    lateReconcile,   \* history: a listener or timer called fetchUser after teardown
    fetchCalls,      \* history: getProfile() calls issued so far
    clearTriggers,   \* history: fetchUser() calls that found the guard clear and a credential
    starter,         \* history: the trigger whose fetchUser() call issued the pending fetch
    stale,           \* history: the pending fetch is older than a signOut() that has settled
    hdrMounted,      \* Header has rendered and the effect of its own hook has run
    userProp,        \* Header prop user (AuthUser | null | undefined)
    loadingProp,     \* Header prop loading ("true" | "false" | undefined)
    onSignOutProp,   \* Header prop onSignOut (function | undefined)
    ownUser,         \* minimal hook: useState<AuthUser | null>(null)
    ownLoading,      \* minimal hook: useState(false)
    ownInflight,     \* minimal hook: getProfile() calls awaiting their result
    ownCalls,        \* history: getProfile() calls the minimal hook issued
    ownResult        \* history: the last result the minimal hook received

hook == <<user, loading, fetchingRef, inflight>>
subs == <<visListener, tokListener, interval>>
vars == <<user, loading, fetchingRef, inflight, present, visibilityState,
          activated, deactivations, visListener, tokListener, interval,
          pendingLogout, signOutResult, last, winTriggers, winCalls, quiet,
          lateReconcile, fetchCalls, clearTriggers, starter, stale,
          hdrMounted, userProp, loadingProp, onSignOutProp, ownUser,
          ownLoading, ownInflight, ownCalls, ownResult>>
props == <<userProp, loadingProp, onSignOutProp>>
own == <<ownUser, ownLoading, ownInflight, ownCalls, ownResult>>
header == <<hdrMounted, props, own>>
rich == <<user, loading, fetchingRef, inflight, present, visibilityState,
          activated, deactivations, visListener, tokListener, interval,
          pendingLogout, signOutResult, last, winTriggers, winCalls, quiet,
          lateReconcile, fetchCalls, clearTriggers, starter, stale>>
run == <<fetchCalls, clearTriggers, starter>>

Min(a, b) == IF a < b THEN a ELSE b

\* The snapshot the presentation layer derives from (user, loading).
Snapshot ==
    IF loading THEN "Loading"
    ELSE IF user = Null THEN "Unauthenticated"
    ELSE "Authenticated"

Step(op, called, issued, result) ==
    [op |-> op, called |-> called, present |-> present, guard |-> fetchingRef,
     issued |-> issued, result |-> result]

HookInit ==
    /\ user = Null
    /\ loading = TRUE
    /\ fetchingRef = FALSE
    /\ inflight = 0
    /\ present \in BOOLEAN
    /\ visibilityState = "visible"
    /\ activated = FALSE
    /\ deactivations = 0
    /\ visListener = FALSE
    /\ tokListener = FALSE
    /\ interval = FALSE
    /\ pendingLogout = 0
    /\ signOutResult = "none"
    /\ last = [op |-> "init", called |-> FALSE, present |-> present,
               guard |-> FALSE, issued |-> FALSE, result |-> Null]
    /\ winTriggers = 0
    /\ winCalls = 0
    /\ quiet = TRUE
    /\ lateReconcile = FALSE
    /\ fetchCalls = 0
    /\ clearTriggers = 0
    /\ starter = "none"
    /\ stale = "no"

\* The minimal hook before its effect has run.
OwnInit ==
    /\ hdrMounted = FALSE
    /\ ownUser = Null
    /\ ownLoading = FALSE
    /\ ownInflight = 0
    /\ ownCalls = 0
    /\ ownResult = Null

\* The richer hook alone: no Header is rendered.
Init ==
    /\ HookInit
    /\ OwnInit
    /\ userProp = Undefined
    /\ loadingProp = Undefined
    /\ onSignOutProp = Undefined

\* A Header about to be rendered with any combination of its props.
HeaderInit ==
    /\ HookInit
    /\ OwnInit
    /\ userProp \in Profiles \cup {Null, Undefined}
    /\ loadingProp \in {"true", "false", Undefined}
    /\ onSignOutProp \in {"onSignOut", Undefined}

(* ---------- fetchUser: the synchronous part, up to the await ---------- *)
FetchUserNoGuardCheck ==
    IF ~present
    THEN /\ user' = Null
         /\ loading' = FALSE
         /\ UNCHANGED <<fetchingRef, inflight>>
    ELSE /\ fetchingRef' = TRUE
         /\ inflight' = inflight + 1
         /\ UNCHANGED <<user, loading>>

FetchUserNoGuardSet ==
    IF fetchingRef
    THEN UNCHANGED hook
    ELSE IF ~present
    THEN /\ user' = Null
         /\ loading' = FALSE
         /\ UNCHANGED <<fetchingRef, inflight>>
    ELSE /\ inflight' = inflight + 1
         /\ UNCHANGED <<user, loading, fetchingRef>>

FetchUserNoPresenceCheck ==
    IF fetchingRef
    THEN UNCHANGED hook
    ELSE /\ fetchingRef' = TRUE
         /\ inflight' = inflight + 1
         /\ UNCHANGED <<user, loading>>

FetchUserQueuesDropped ==
    IF fetchingRef
    THEN IF present
         THEN /\ inflight' = inflight + 1
              /\ UNCHANGED <<user, loading, fetchingRef>>
         ELSE UNCHANGED hook
    ELSE IF ~present
    THEN /\ user' = Null
         /\ loading' = FALSE
         /\ UNCHANGED <<fetchingRef, inflight>>
    ELSE /\ fetchingRef' = TRUE
         /\ inflight' = inflight + 1
         /\ UNCHANGED <<user, loading>>

FetchUserSetsLoading ==
    IF fetchingRef
    THEN UNCHANGED hook
    ELSE IF ~present
    THEN /\ user' = Null
         /\ loading' = FALSE
         /\ UNCHANGED <<fetchingRef, inflight>>
    ELSE /\ fetchingRef' = TRUE
         /\ loading' = TRUE
         /\ inflight' = inflight + 1
         /\ UNCHANGED user

FetchUser ==
    IF fetchingRef
    THEN UNCHANGED hook
    ELSE IF ~present
    THEN /\ user' = Null
         /\ loading' = FALSE
         /\ UNCHANGED <<fetchingRef, inflight>>
    ELSE /\ fetchingRef' = TRUE
         /\ inflight' = inflight + 1
         /\ UNCHANGED <<user, loading>>

\* History of one fetchUser() call made by the trigger op.
Reconciled(op) ==
    /\ last' = Step(op, TRUE, inflight' > inflight, Null)
    /\ IF present
       THEN /\ winTriggers' = Min(winTriggers + 1, MaxTriggers)
            /\ winCalls' = Min(winCalls + (inflight' - inflight), MaxTriggers)
       ELSE IF inflight = 0
       THEN winTriggers' = 0 /\ winCalls' = 0
       ELSE UNCHANGED <<winTriggers, winCalls>>
    /\ fetchCalls' = Min(fetchCalls + (inflight' - inflight), MaxCalls)
    /\ clearTriggers' =
          IF ~fetchingRef /\ present
          THEN Min(clearTriggers + 1, MaxCalls)
          ELSE clearTriggers
    /\ starter' = IF inflight' > inflight THEN op ELSE starter
    /\ UNCHANGED stale

(* ---------- fetchUser: the continuation after the await ---------- *)
SettleNoFinally(outcome) ==
    /\ user' = IF outcome = Rejected THEN Null ELSE outcome
    /\ loading' = IF outcome = Rejected THEN loading ELSE FALSE
    /\ fetchingRef' = IF outcome = Rejected THEN fetchingRef ELSE FALSE

SettleKeepsUser(outcome) ==
    /\ user' = IF outcome = Rejected THEN user ELSE outcome
    /\ loading' = FALSE
    /\ fetchingRef' = FALSE

SettleUnlessUnmounted(outcome) ==
    /\ user' = IF deactivations > 0 THEN user
               ELSE IF outcome = Rejected THEN Null ELSE outcome
    /\ loading' = IF deactivations > 0 THEN loading ELSE FALSE
    /\ fetchingRef' = FALSE

SettleGuardStuck(outcome) ==
    /\ user' = IF outcome = Rejected THEN Null ELSE outcome
    /\ loading' = FALSE
    /\ fetchingRef' = IF outcome = Rejected THEN fetchingRef ELSE FALSE

Settle(outcome) ==
    /\ user' = IF outcome = Rejected THEN Null ELSE outcome
    /\ loading' = FALSE
    /\ fetchingRef' = FALSE

FetchResolve ==
    /\ inflight > 0
    /\ \E outcome \in Outcomes :
          /\ Settle(outcome)
          /\ last' = Step("resolve", FALSE, FALSE, outcome)
    /\ inflight' = inflight - 1
    /\ winTriggers' = 0
    /\ winCalls' = 0
    /\ starter' = IF inflight' = 0 THEN "none" ELSE starter
    /\ stale' = "no"
    /\ UNCHANGED <<present, visibilityState, activated, deactivations, subs,
                   pendingLogout, signOutResult, quiet, lateReconcile,
                   fetchCalls, clearTriggers>>
    /\ UNCHANGED header

(* ---------- the effects: activation and teardown ---------- *)
Activate ==
    /\ ~activated
    /\ deactivations = 0
    /\ activated' = TRUE
    /\ FetchUser
    /\ Reconciled("activate")
    /\ visListener' = TRUE
    /\ tokListener' = TRUE
    /\ interval' = TRUE
    /\ UNCHANGED <<present, visibilityState, deactivations, pendingLogout,
                   signOutResult, quiet, lateReconcile>>
    /\ UNCHANGED header

CleanupLeavesTimer ==
    /\ visListener' = FALSE
    /\ tokListener' = FALSE
    /\ UNCHANGED interval

Cleanup ==
    /\ visListener' = FALSE
    /\ tokListener' = FALSE
    /\ interval' = FALSE

Deactivate ==
    /\ deactivations < MaxDeactivate
    /\ Cleanup
    /\ deactivations' = deactivations + 1
    /\ last' = Step("deactivate", FALSE, FALSE, Null)
    /\ quiet' = FALSE
    /\ UNCHANGED <<hook, present, visibilityState, activated, pendingLogout,
                   signOutResult, winTriggers, winCalls, lateReconcile, run,
                   stale>>
    /\ UNCHANGED header

(* ---------- the three event sources ---------- *)
VisibilityChangeAnyState ==
    /\ visibilityState' = IF visibilityState = "visible" THEN "hidden" ELSE "visible"
    /\ IF visListener
       THEN /\ FetchUser
            /\ Reconciled("visibility")
            /\ lateReconcile' = (lateReconcile \/ deactivations > 0)
       ELSE /\ last' = Step("visibility", FALSE, FALSE, Null)
            /\ UNCHANGED <<hook, winTriggers, winCalls, lateReconcile, run,
                           stale>>
    /\ quiet' = FALSE
    /\ UNCHANGED <<present, activated, deactivations, subs, pendingLogout,
                   signOutResult>>
    /\ UNCHANGED header

VisibilityChange ==
    /\ visibilityState' = IF visibilityState = "visible" THEN "hidden" ELSE "visible"
    /\ IF visListener /\ visibilityState' = "visible"
       THEN /\ FetchUser
            /\ Reconciled("visibility")
            /\ lateReconcile' = (lateReconcile \/ deactivations > 0)
       ELSE /\ last' = Step("visibility", FALSE, FALSE, Null)
            /\ UNCHANGED <<hook, winTriggers, winCalls, lateReconcile, run,
                           stale>>
    /\ quiet' = FALSE
    /\ UNCHANGED <<present, activated, deactivations, subs, pendingLogout,
                   signOutResult>>
    /\ UNCHANGED header

TokensUpdated ==
    /\ tokListener
    /\ FetchUser
    /\ Reconciled("broadcast")
    /\ lateReconcile' = (lateReconcile \/ deactivations > 0)
    /\ quiet' = FALSE
    /\ UNCHANGED <<present, visibilityState, activated, deactivations, subs,
                   pendingLogout, signOutResult>>
    /\ UNCHANGED header

Heartbeat ==
    /\ interval
    /\ IF present
       THEN /\ FetchUser
            /\ Reconciled("heartbeat")
            /\ lateReconcile' = (lateReconcile \/ deactivations > 0)
       ELSE /\ last' = Step("heartbeat", FALSE, FALSE, Null)
            /\ UNCHANGED <<hook, winTriggers, winCalls, lateReconcile, run,
                           stale>>
    /\ quiet' = FALSE
    /\ UNCHANGED <<present, visibilityState, activated, deactivations, subs,
                   pendingLogout, signOutResult>>
    /\ UNCHANGED header

(* ---------- signOut ---------- *)
SignOut ==
    /\ activated
    /\ pendingLogout < MaxLogout
    /\ pendingLogout' = pendingLogout + 1
    /\ last' = Step("signOut", FALSE, FALSE, Null)
    /\ quiet' = FALSE
    /\ stale' = IF inflight > 0 THEN "called" ELSE stale
    /\ UNCHANGED <<hook, present, visibilityState, activated, deactivations,
                   subs, signOutResult, winTriggers, winCalls, lateReconcile,
                   run>>
    /\ UNCHANGED header

\* logout() settles; .finally runs its callback and passes the settlement on.
LogoutSettle ==
    /\ pendingLogout > 0
    /\ pendingLogout' = pendingLogout - 1
    /\ \E ok \in BOOLEAN :
          /\ signOutResult' = IF ok THEN "fulfilled" ELSE "rejected"
          /\ last' = Step("logoutSettle", FALSE, FALSE, IF ok THEN Null ELSE Rejected)
    /\ user' = Null
    /\ quiet' = FALSE
    /\ UNCHANGED <<loading, fetchingRef, inflight, present, visibilityState,
                   activated, deactivations, subs, winTriggers, winCalls,
                   lateReconcile, run>>
    /\ stale' = IF stale = "called" /\ pendingLogout' = 0 THEN "settled" ELSE stale
    /\ UNCHANGED header

(* ---------- the environment: a credential appears or disappears ---------- *)
SetPresence ==
    /\ present' = ~present
    /\ last' = Step("presence", FALSE, FALSE, Null)
    /\ quiet' = FALSE
    /\ UNCHANGED <<hook, visibilityState, activated, deactivations, subs,
                   pendingLogout, signOutResult, winTriggers, winCalls,
                   lateReconcile, run, stale>>
    /\ UNCHANGED header

Next ==
    \/ Activate
    \/ Deactivate
    \/ VisibilityChange
    \/ TokensUpdated
    \/ Heartbeat
    \/ FetchResolve
    \/ SignOut
    \/ LogoutSettle
    \/ SetPresence

Spec == Init /\ [][Next]_vars

\* Collaborator calls settle and the timer keeps ticking.
FairSpec ==
    /\ Spec
    /\ WF_vars(Heartbeat)
    /\ WF_vars(FetchResolve)
    /\ WF_vars(LogoutSettle)


(* ---------- the minimal hook and the Header that instantiates it ---------- *)
\* The mount effect of the minimal hook, up to the getProfile() call.
MinEffect ==
    IF ~present
    THEN UNCHANGED own
    ELSE /\ ownLoading' = TRUE
         /\ ownInflight' = ownInflight + 1
         /\ ownCalls' = ownCalls + 1
         /\ UNCHANGED <<ownUser, ownResult>>

MinSettleNoFinally(outcome) ==
    /\ ownUser' = IF outcome = Rejected THEN Null ELSE outcome
    /\ UNCHANGED ownLoading

\* .then / .catch / .finally of the minimal hook.
MinSettle(outcome) ==
    /\ ownUser' = IF outcome = Rejected THEN Null ELSE outcome
    /\ ownLoading' = FALSE

\* Header renders: useProfile() is called whatever the props are.
HeaderMount ==
    /\ ~hdrMounted
    /\ hdrMounted' = TRUE
    /\ MinEffect
    /\ UNCHANGED <<rich, props>>

OwnResolve ==
    /\ ownInflight > 0
    /\ \E outcome \in Outcomes :
          /\ MinSettle(outcome)
          /\ ownResult' = outcome
    /\ ownInflight' = ownInflight - 1
    /\ UNCHANGED <<rich, props, hdrMounted, ownCalls>>

\* What Header passes on to UserMenu.
HeaderUser == IF userProp # Undefined THEN userProp ELSE ownUser
HeaderLoading == IF loadingProp # Undefined THEN loadingProp = "true" ELSE ownLoading
HeaderSignOut == IF onSignOutProp # Undefined THEN onSignOutProp ELSE "ownProfile.signOut"

HeaderNext ==
    \/ HeaderMount
    \/ OwnResolve
    \/ Activate
    \/ FetchResolve

HeaderSpec == HeaderInit /\ [][HeaderNext]_vars

TypeOK ==
    /\ user \in Profiles \cup {Null}
    /\ loading \in BOOLEAN
    /\ fetchingRef \in BOOLEAN
    /\ inflight \in Nat
    /\ present \in BOOLEAN
    /\ visibilityState \in {"visible", "hidden"}
    /\ deactivations \in 0..MaxDeactivate
    /\ pendingLogout \in 0..MaxLogout
    /\ signOutResult \in {"none", "fulfilled", "rejected"}

(***************************************************************************)
(* Properties                                                              *)
(***************************************************************************)

\* C1: for one hook instance, in every reachable state at most one
\* getProfile() call is in flight, whatever the interleaving of the initial,
\* visibility, broadcast and heartbeat triggers with fetch results.
SingleFlight == inflight <= 1

\* A heartbeat tick arrived while a fetch was pending and was dropped.
SingleFlightWitness ==
    /\ last.op = "heartbeat"
    /\ last.called
    /\ last.guard
    /\ inflight = 1

\* C2 (P1): since the last fetch result, if one or more reconcile calls were
\* made with a credential present, exactly one getProfile() call was issued.
OneCallPerWindow == winTriggers >= 1 => winCalls = 1

\* Two or more triggers fired before the pending fetch resolved.
OneCallPerWindowWitness == winTriggers >= 2 /\ winCalls = 1 /\ inflight = 1

\* C3 (P2) as stated: every fetchUser() call made while isAuthenticated() is
\* false issues no getProfile() and returns with user = null, loading = false,
\* including a call made while another reconcile is in flight.
PresenceShortCircuitAlways ==
    (last.called /\ ~last.present) =>
        (~last.issued /\ user = Null /\ loading = FALSE)

\* C3 (P2) amended: the same, for the calls that find the guard clear.
PresenceShortCircuit ==
    (last.called /\ ~last.present /\ ~last.guard) =>
        (~last.issued /\ user = Null /\ loading = FALSE)

\* A broadcast found no credential and the guard clear.
PresenceShortCircuitWitness ==
    /\ last.op = "broadcast"
    /\ last.called
    /\ ~last.present
    /\ ~last.guard
    /\ Snapshot = "Unauthenticated"

\* C4: when a fetch resolves the snapshot is Authenticated with exactly the
\* returned profile on success and Unauthenticated on failure; after
\* activation with a credential and no other event, the run ends that way.
ResolveWritesResult ==
    /\ last.op = "resolve" =>
          /\ loading = FALSE
          /\ user = (IF last.result = Rejected THEN Null ELSE last.result)
    /\ (quiet /\ activated /\ present) =>
          \/ inflight = 1 /\ fetchingRef /\ Snapshot = "Loading"
          \/ /\ inflight = 0
             /\ last.op = "resolve"
             /\ last.result = Rejected => Snapshot = "Unauthenticated"
             /\ last.result # Rejected =>
                   (Snapshot = "Authenticated" /\ user = last.result)

\* Scenario A: activation alone, the fetch returned u1.
ResolveWritesResultWitness ==
    /\ quiet
    /\ activated
    /\ last.op = "resolve"
    /\ last.result = "u1"
    /\ user = "u1"

\* C5 (P5): when a logout() call settles, the snapshot is Unauthenticated,
\* in whatever state signOut() was called.
SignOutLands ==
    last.op = "logoutSettle" => Snapshot = "Unauthenticated"

\* C6: the promise signOut() returns never rejects.
SignOutNeverRejects == signOutResult # "rejected"

\* C7: after activation, loading = true implies a reconcile is in flight
\* (guard set, fetch pending).
LoadingOnlyInFlight ==
    (activated /\ loading) => (fetchingRef /\ inflight = 1)

\* The first reconcile is pending and the snapshot is still Loading.
LoadingOnlyInFlightWitness ==
    /\ activated
    /\ loading
    /\ fetchingRef
    /\ inflight = 1

\* C8: a heartbeat tick with no credential and no reconcile in flight calls
\* fetchUser(), issues no fetch and leaves the snapshot Unauthenticated.
HeartbeatShortCircuits ==
    (last.op = "heartbeat" /\ ~last.present /\ ~last.guard) =>
        (last.called /\ ~last.issued /\ Snapshot = "Unauthenticated")

\* C9: if from some point on no credential is present and the hook stays
\* activated, then eventually the snapshot is Unauthenticated for good.
EventuallyUnauthenticated ==
    <>[](~present /\ activated /\ deactivations = 0)
        => <>[](Snapshot = "Unauthenticated")

\* C10 (P3): once the teardown has run, whether once, twice or without a
\* prior activation, no listener or timer is left and no visibility,
\* broadcast or heartbeat event calls fetchUser().
TeardownIsFinal ==
    /\ deactivations >= 1 => (~visListener /\ ~tokListener /\ ~interval)
    /\ ~lateReconcile

\* The teardown ran twice after an activation.
TeardownIsFinalWitness ==
    /\ activated
    /\ deactivations = 2
    /\ ~visListener
    /\ ~tokListener
    /\ ~interval

\* C11 (P4): a reconcile that is in flight when the teardown runs is not
\* aborted: the guard stays set while its fetch is pending, and when it
\* resolves it writes its result, clears the guard and the loading flag, and
\* registers no listener or timer.
LateResolutionTolerated ==
    /\ (deactivations >= 1 /\ fetchingRef) => inflight = 1
    /\ (deactivations >= 1 /\ last.op = "resolve") =>
          /\ user = (IF last.result = Rejected THEN Null ELSE last.result)
          /\ loading = FALSE
          /\ fetchingRef = FALSE
          /\ inflight = 0
          /\ ~visListener /\ ~tokListener /\ ~interval

\* The fetch of the activation resolved with u2 after the teardown.
LateResolutionToleratedWitness ==
    /\ activated
    /\ deactivations >= 1
    /\ last.op = "resolve"
    /\ last.result = "u2"
    /\ user = "u2"
    /\ fetchCalls = 1

\* C13: a fetchUser() call that finds the guard set issues no getProfile(),
\* then or later: over the run, the number of getProfile() calls equals the
\* number of fetchUser() calls that found the guard clear and a credential.
DroppedNotQueued ==
    /\ fetchCalls = clearTriggers
    /\ (last.called /\ last.guard) => ~last.issued
    /\ fetchingRef => (winCalls = 1 /\ starter # "none")

\* Scenario C: a heartbeat tick during a pending visibility-triggered fetch.
DroppedNotQueuedWitness ==
    /\ last.op = "heartbeat"
    /\ last.called
    /\ last.guard
    /\ starter = "visibility"
    /\ winCalls = 1
    /\ fetchCalls = clearTriggers

\* C14: the guard is set exactly while a getProfile() call is pending; a
\* fetch result, success or failure, clears it together with the loading
\* flag; a fetchUser() call that then finds a credential starts a new fetch.
GuardTracksFetch ==
    /\ fetchingRef <=> inflight = 1
    /\ last.op = "resolve" => (~fetchingRef /\ ~loading)
    /\ (last.called /\ ~last.guard /\ last.present) =>
          (last.issued /\ fetchingRef)

\* After a failed fetch, the next visibility trigger started a second fetch.
GuardTracksFetchWitness ==
    /\ last.op = "visibility"
    /\ last.called
    /\ ~last.guard
    /\ last.present
    /\ last.issued
    /\ fetchCalls = 2
    /\ Snapshot = "Unauthenticated"

\* C15: (user, loading) changes only in a step where a fetch result arrives,
\* a fetchUser() call finds the guard clear and no credential, or a logout
\* settles; a dropped call leaves hook state unchanged, a call that starts a
\* fetch leaves user and loading unchanged, and loading never becomes true.
SnapshotFrame ==
    [][ /\ (user' # user \/ loading' # loading) =>
              \/ last'.op = "resolve"
              \/ last'.op = "logoutSettle"
              \/ (last'.called /\ ~last'.guard /\ ~last'.present)
        /\ (last'.called /\ last'.guard) =>
              (user' = user /\ loading' = loading /\ fetchingRef' = fetchingRef)
        /\ inflight' > inflight => (user' = user /\ loading' = loading)
        /\ ~loading => ~loading'
      ]_vars

\* A fetch was started while the snapshot was Authenticated, and it still is.
SnapshotFrameWitness ==
    /\ last.called
    /\ last.issued
    /\ inflight = 1
    /\ Snapshot = "Authenticated"

\* C16: once every signOut() called while a fetch was pending has settled
\* and the snapshot is Unauthenticated, the result of that older fetch does
\* not make the snapshot Authenticated.
SignOutNotOverwritten ==
    [][ (stale = "settled" /\ Snapshot = "Unauthenticated"
           /\ last'.op = "resolve" /\ inflight' < inflight)
          => Snapshot' # "Authenticated" ]_vars

\* C17: a visibilitychange event whose resulting state is hidden calls no
\* fetchUser() and leaves user, loading, guard and pending fetches unchanged;
\* the visibility handler calls fetchUser() only when the state is visible.
HiddenIsIgnored ==
    [][ visibilityState' # visibilityState =>
          /\ visibilityState' = "hidden" =>
                (~last'.called /\ UNCHANGED hook /\ UNCHANGED run)
          /\ last'.called => visibilityState' = "visible"
      ]_vars

\* The tab was hidden while the listener was registered and a fetch pending.
HiddenIsIgnoredWitness ==
    /\ last.op = "visibility"
    /\ ~last.called
    /\ visibilityState = "hidden"
    /\ visListener
    /\ Snapshot = "Authenticated"

\* C12: when the user, loading and onSignOut props are all provided, Header
\* shows them, no hook of its own is activated and no getProfile() call is
\* issued on its behalf.
HeaderUsesPropsOnly ==
    (hdrMounted /\ userProp # Undefined /\ loadingProp # Undefined
        /\ onSignOutProp # Undefined) =>
        /\ HeaderUser = userProp
        /\ HeaderLoading = (loadingProp = "true")
        /\ HeaderSignOut = onSignOutProp
        /\ ownCalls = 0
        /\ ownInflight = 0

\* C18: on activation alone, with the same presence and the same fetch
\* outcome, the minimal and the richer hook settle in the same (user, loading).
HooksAgreeOnActivation ==
    (quiet /\ activated /\ hdrMounted /\ inflight = 0 /\ ownInflight = 0
        /\ (present => last.result = ownResult)) =>
        (user = ownUser /\ loading = ownLoading)

\* Both hooks fetched, both got u1, both have settled.
HooksAgreeOnActivationWitness ==
    /\ quiet
    /\ activated
    /\ hdrMounted
    /\ present
    /\ inflight = 0
    /\ ownInflight = 0
    /\ last.result = "u1"
    /\ ownResult = "u1"
    /\ user = "u1"
    /\ ownUser = "u1"

====
